---- MODULE Spec2Model ----
(***************************************************************************)
(* State-machine model of the agent-demo-backend correlation layer:        *)
(* src/agent-demo-backend/main.py, builtin_actions.py, session_manager.py. *)
(*                                                                         *)
(* Scheduling: one asyncio event loop.  A handler runs without             *)
(* interleaving from one real suspension to the next, so every action      *)
(* below is one such run.  The real suspensions are `await sio.emit`,      *)
(* `await asyncio.wait_for(future)` and `await loop.run_in_executor`.      *)
(* `await _generate_speech(...)` is NOT one: the body of _generate_speech  *)
(* (builtin_actions.py:24-39) contains no await, only synchronous boto3    *)
(* calls, so awaiting it runs it to completion without returning to the    *)
(* event loop.                                                             *)
(*                                                                         *)
(* The dicts that map a token to an asyncio.Future are modelled by their   *)
(* key sets; the Future objects themselves live in `future`, indexed by    *)
(* the token they were created for (the handler keeps its own reference    *)
(* to the Future, so the Future outlives its dict entry).                  *)
(* asyncio.wait_for is taken at its documented contract: it returns the    *)
(* Future's result if the Future completes first, otherwise the timer      *)
(* cancels the Future and the waiter is resumed with TimeoutError.         *)
(***************************************************************************)
EXTENDS Integers, FiniteSets, Sequences, TLC

\* ------------------------------------------------------------------ bounds
MaxPeers == 2
MaxTokens == 2
MaxTurns == 2
MaxSessions == 4
MaxTasks == 2
MaxTimeSessions == 2
MaxClock == 2
\* clock ticks in a minute: a duration is truncated to whole minutes
TicksPerMinute == 2
MaxLen == 3

Peers == 1..MaxPeers
Tokens == 1..MaxTokens
\* user_prompt handlers of one sid that can be running at the same time
Turns == 1..MaxTurns

\* request_id / speech_id / toolCallId values an inbound event may carry:
\* 0 stands for a missing id (data.get(...) is None), MaxTokens + 1 for an
\* id no handler ever generated.
ReplyIds == 0..(MaxTokens + 1)

VARIABLES
  connected_clients,          \* main.py:34
  ever_connected,             \* sids the transport has already handed out
  agent_processing_lock,      \* main.py:37, dict sid -> bool
  sessions,                   \* SessionManager.sessions, dict sid -> id
  next_session,               \* fresh runtime session ids
  pending_tool_calls,         \* main.py:31 (keys)
  pending_speech_completions, \* builtin_actions.py:43 (keys)
  pending_user_responses,     \* builtin_actions.py:160 (keys)
  active_speech_per_client,   \* builtin_actions.py:46, dict sid -> id
  future,                     \* the asyncio.Future created for each token
  calls,                      \* frontend_action invocations in flight
  next_id,                    \* uuid.uuid4(): the next unused token
  turn,                       \* position of each user_prompt handler per sid
  disc,                       \* position of the disconnect handler per sid
  events,                     \* what each user_prompt handler has emitted so far
  ret,                        \* what the handler that ended in this step returned
  out,                        \* what this step emitted to a peer
  synth,                      \* this step called _generate_speech
  tasks,                      \* database.py:31-50, table tasks: id -> row
  time_sessions,              \* database.py:89-97, table time_sessions: rows by id
  clock,                      \* datetime.now(), in ticks of 1 / TicksPerMinute minute
  name,                       \* frontend_data["name"] given to the transformer
  sanitized                   \* what _sanitize_function_name returned for it

vars == <<connected_clients, ever_connected, agent_processing_lock, sessions,
          next_session, pending_tool_calls, pending_speech_completions,
          pending_user_responses, active_speech_per_client, future, calls,
          next_id, turn, disc, events, ret, out, synth, tasks, time_sessions,
          clock, name, sanitized>>

brokerVars == <<pending_tool_calls, pending_speech_completions,
                pending_user_responses, active_speech_per_client, future,
                calls, next_id>>
peerVars == <<connected_clients, ever_connected, agent_processing_lock,
              sessions, next_session, turn, disc, events>>
dbVars == <<tasks, time_sessions, clock>>
toolVars == <<name, sanitized>>
serverVars == <<connected_clients, ever_connected, agent_processing_lock,
                sessions, next_session, turn, disc, events, pending_tool_calls,
                pending_speech_completions, pending_user_responses,
                active_speech_per_client, future, calls, next_id>>

\* ------------------------------------------------------------ dict helpers
DictSet(d, k, v) == [x \in (DOMAIN d) \cup {k} |-> IF x = k THEN v ELSE d[x]]
DictDel(d, k) == [x \in (DOMAIN d) \ {k} |-> d[x]]

\* ------------------------------------------------------------------ values
NoVal == <<"-", "-">>
SpeechDone == <<"True", "-">>                  \* future.set_result(True)
Responses == {"", "yes", "no"}                 \* data.get('response', '')
\* <<data.get('success'), data.get('result')>> of a frontend_tool_response
ToolData == {<<"true", "R1">>, <<"false", "R2">>, <<"absent", "absent">>}

NoFuture == [st |-> "none", val |-> NoVal]
PendingFuture == [st |-> "pending", val |-> NoVal]
CancelledFuture == [st |-> "cancelled", val |-> NoVal]
ResultFuture(v) == [st |-> "result", val |-> v]

NoCall == [kind |-> "none", sid |-> 0, pc |-> "idle", wait |-> FALSE, timeout |-> "-"]

\* A returned value: the token of the call that returned (for a reply
\* handler: the id the reply carried), the HTTP status of frontend_action
\* (0 for a Socket.IO handler), the 'success' field (for a reply handler:
\* the bool it computed), the error text, the id the error text names, and
\* the payload.
NoRet == [token |-> 0, status |-> 0, success |-> FALSE, error |-> "none",
          ref |-> 0, data |-> NoVal]
Ret(token, status, success, error, ref, data) ==
  [token |-> token, status |-> status, success |-> success, error |-> error,
   ref |-> ref, data |-> data]

NoOut == [event |-> "none", room |-> 0, token |-> 0]
Emit(event, room, token) == [event |-> event, room |-> room, token |-> token]

\* the tables after init_db (database.py:24-107) on a new file
InitStore ==
  /\ tasks = << >>
  /\ time_sessions = << >>
  /\ clock = 0

\* no tool specification has been handed to the transformer
InitNoTool ==
  /\ name = << >>
  /\ sanitized = << >>

\* the module-level state of main.py, builtin_actions.py and session_manager.py
InitBackend ==
  /\ connected_clients = {}
  /\ ever_connected = {}
  /\ agent_processing_lock = << >>
  /\ sessions = << >>
  /\ next_session = 1
  /\ pending_tool_calls = {}
  /\ pending_speech_completions = {}
  /\ pending_user_responses = {}
  /\ active_speech_per_client = << >>
  /\ future = [t \in Tokens |-> NoFuture]
  /\ calls = [t \in Tokens |-> NoCall]
  /\ next_id = 1
  /\ turn = [p \in Peers |-> [k \in Turns |-> "idle"]]
  /\ disc = [p \in Peers |-> "none"]
  /\ events = [p \in Peers |-> [k \in Turns |-> << >>]]
  /\ ret = NoRet
  /\ out = NoOut
  /\ synth = FALSE

Init ==
  /\ InitBackend
  /\ InitStore
  /\ InitNoTool

\* connect (main.py:55-60).  The transport gives every connection a new sid.
Connect(sid) ==
  /\ sid \notin ever_connected
  /\ connected_clients' = connected_clients \cup {sid}
  /\ ever_connected' = ever_connected \cup {sid}
  /\ ret' = NoRet
  /\ out' = Emit("response", sid, 0)
  /\ synth' = FALSE
  /\ UNCHANGED <<agent_processing_lock, sessions, next_session, turn, disc, events>>
  /\ UNCHANGED brokerVars
  /\ UNCHANGED <<dbVars, toolVars>>

\* ----------------------------------------------------------- busy guard
\* variant: the busy check is left out
BusyCheckSkipped(active, sid) == FALSE

\* `client_sid in active_speech_per_client` (builtin_actions.py:76, 189)
BusyCheck(active, sid) == sid \in DOMAIN active

\* variant: the marker is not written
AcquireGuardDropped(active, sid, id) == active

\* `active_speech_per_client[client_sid] = speech_id` (:96, :209)
AcquireGuard(active, sid, id) == DictSet(active, sid, id)

\* variant: the marker is deleted whoever holds it
ReleaseGuardUnconditional(active, sid, id) ==
  IF sid \in DOMAIN active THEN DictDel(active, sid) ELSE active

\* variant: the marker is never deleted
ReleaseGuardSkipped(active, sid, id) == active

\* the last statement of both finally blocks (:137-138, :253-254)
ReleaseGuard(active, sid, id) ==
  IF sid \in DOMAIN active /\ active[sid] = id THEN DictDel(active, sid)
  ELSE active

\* variant: the error text does not carry the holder's id
BusyResultAnonymous(sid, active) ==
  Ret(0, 200, FALSE, "Speech already in progress", 0, NoVal)

\* the result returned when the guard is held (:77-81, :190-194); ref is the
\* id the error text names
BusyResult(sid, active) ==
  Ret(0, 200, FALSE, "Speech already in progress", active[sid], NoVal)

\* ------------------------------------------------------- reply handlers
\* variant: an id that is not pending is reported as handled
handle_speech_completion_unchecked(pend, fut, speech_id) ==
  IF speech_id \in pend /\ fut[speech_id].st = "pending"
  THEN [handled |-> TRUE,
        fut |-> [fut EXCEPT ![speech_id] = ResultFuture(SpeechDone)]]
  ELSE [handled |-> TRUE, fut |-> fut]

\* handle_speech_completion (builtin_actions.py:141-156)
handle_speech_completion(pend, fut, speech_id) ==
  IF speech_id \in pend /\ fut[speech_id].st = "pending"
  THEN [handled |-> TRUE,
        fut |-> [fut EXCEPT ![speech_id] = ResultFuture(SpeechDone)]]
  ELSE [handled |-> FALSE, fut |-> fut]

\* variant: no `future.done()` test, the last response wins
handle_user_response_overwrite(pend, fut, request_id, response) ==
  IF request_id \in pend
  THEN [handled |-> TRUE,
        fut |-> [fut EXCEPT ![request_id] = ResultFuture(<<"response", response>>)]]
  ELSE [handled |-> FALSE, fut |-> fut]

\* handle_user_response (builtin_actions.py:257-273)
handle_user_response(pend, fut, request_id, response) ==
  IF request_id \in pend /\ fut[request_id].st = "pending"
  THEN [handled |-> TRUE,
        fut |-> [fut EXCEPT ![request_id] = ResultFuture(<<"response", response>>)]]
  ELSE [handled |-> FALSE, fut |-> fut]

\* variant: replies are matched by arrival order, the oldest entry first
resolve_tool_call_by_arrival(pend, fut, tool_call_id, data) ==
  IF pend # {}
  THEN LET oldest == CHOOSE x \in pend : \A y \in pend : x <= y
       IN [handled |-> fut[oldest].st = "pending",
           fut |-> IF fut[oldest].st = "pending"
                   THEN [fut EXCEPT ![oldest] = ResultFuture(data)]
                   ELSE fut,
           pend |-> pend \ {oldest}]
  ELSE [handled |-> FALSE, fut |-> fut, pend |-> pend]

\* the tail of frontend_tool_response (main.py:256-261); `handled` says
\* whether set_result ran
resolve_tool_call(pend, fut, tool_call_id, data) ==
  IF tool_call_id \in pend
  THEN [handled |-> fut[tool_call_id].st = "pending",
        fut |-> IF fut[tool_call_id].st = "pending"
                THEN [fut EXCEPT ![tool_call_id] = ResultFuture(data)]
                ELSE fut,
        pend |-> pend \ {tool_call_id}]
  ELSE [handled |-> FALSE, fut |-> fut, pend |-> pend]

\* speech_completed (main.py:115-125); like the two handlers after it, it
\* never reads the sid of the sender
SpeechCompleted(sender, speech_id) ==
  LET r == IF speech_id # 0
           THEN handle_speech_completion(pending_speech_completions, future, speech_id)
           ELSE [handled |-> FALSE, fut |-> future]
  IN /\ future' = r.fut
     /\ ret' = Ret(speech_id, 0, r.handled, "-", 0, NoVal)
     /\ out' = NoOut
     /\ synth' = FALSE
     /\ UNCHANGED <<pending_tool_calls, pending_speech_completions,
                    pending_user_responses, active_speech_per_client, calls,
                    next_id>>
     /\ UNCHANGED peerVars
     /\ UNCHANGED <<dbVars, toolVars>>

\* variant: no `if request_id and response` test
UserResponseUnvalidated(sender, request_id, response) ==
  LET r == IF request_id \in Tokens
           THEN handle_user_response(pending_user_responses, future, request_id, response)
           ELSE [handled |-> FALSE, fut |-> future]
  IN /\ future' = r.fut
     /\ ret' = Ret(request_id, 0, r.handled, "-", 0, NoVal)
     /\ out' = NoOut
     /\ synth' = FALSE
     /\ UNCHANGED <<pending_tool_calls, pending_speech_completions,
                    pending_user_responses, active_speech_per_client, calls,
                    next_id>>
     /\ UNCHANGED peerVars
     /\ UNCHANGED <<dbVars, toolVars>>

\* variant: only the peer the question was sent to may answer it
UserResponseFromTarget(sender, request_id, response) ==
  LET r == IF request_id # 0 /\ response # ""
              /\ request_id \in Tokens /\ calls[request_id].sid = sender
           THEN handle_user_response(pending_user_responses, future, request_id, response)
           ELSE [handled |-> FALSE, fut |-> future]
  IN /\ future' = r.fut
     /\ ret' = Ret(request_id, 0, r.handled, "-", 0, NoVal)
     /\ out' = NoOut
     /\ synth' = FALSE
     /\ UNCHANGED <<pending_tool_calls, pending_speech_completions,
                    pending_user_responses, active_speech_per_client, calls,
                    next_id>>
     /\ UNCHANGED peerVars
     /\ UNCHANGED <<dbVars, toolVars>>

\* user_response (main.py:128-141)
UserResponse(sender, request_id, response) ==
  LET r == IF request_id # 0 /\ response # ""
           THEN handle_user_response(pending_user_responses, future, request_id, response)
           ELSE [handled |-> FALSE, fut |-> future]
  IN /\ future' = r.fut
     /\ ret' = Ret(request_id, 0, r.handled, "-", 0, NoVal)
     /\ out' = NoOut
     /\ synth' = FALSE
     /\ UNCHANGED <<pending_tool_calls, pending_speech_completions,
                    pending_user_responses, active_speech_per_client, calls,
                    next_id>>
     /\ UNCHANGED peerVars
     /\ UNCHANGED <<dbVars, toolVars>>

\* frontend_tool_response (main.py:241-261)
FrontendToolResponse(sender, tool_call_id, data) ==
  LET r == resolve_tool_call(pending_tool_calls, future, tool_call_id, data)
  IN /\ future' = r.fut
     /\ pending_tool_calls' = r.pend
     /\ ret' = Ret(tool_call_id, 0, r.handled, "-", 0, NoVal)
     /\ out' = NoOut
     /\ synth' = FALSE
     /\ UNCHANGED <<pending_speech_completions, pending_user_responses,
                    active_speech_per_client, calls, next_id>>
     /\ UNCHANGED peerVars
     /\ UNCHANGED <<dbVars, toolVars>>

\* ------------------------------------------------------------- dispatch
Actions == {"", "speak_to_user", "ask_user", "create_task"}
BUILTIN_ACTIONS == {"speak_to_user", "ask_user"}      \* builtin_actions.py:277-280
Messages == {"", "hello"}
\* parameters.get('timeout', 30) of ask_user (builtin_actions.py:183): a
\* number of seconds, or None, with which asyncio.wait_for sets no timer
Timeouts == {"30", "None"}

\* What remains of a finished call: its Future is garbage unless a dict
\* still holds it.
Forget(fut, t, stillKeyed) == IF stillKeyed THEN fut ELSE [fut EXCEPT ![t] = NoFuture]

\* variant: the failed synthesis is reported as a success
SynthFailureIgnored == Ret(0, 200, TRUE, "-", 0, NoVal)

\* `if not audio_base64: return {"success": False, ...}`
\* (builtin_actions.py:86-90, 199-203)
SynthFailure == Ret(0, 200, FALSE, "Failed to generate speech", 0, NoVal)

\* variant: the speech is registered whether or not its completion is awaited
RegisterSpeechAlways(pend, speech_id, wait_for_completion) == pend \cup {speech_id}

\* `if wait_for_completion: ... pending_speech_completions[speech_id] = future`
\* (builtin_actions.py:99-102)
RegisterSpeech(pend, speech_id, wait_for_completion) ==
  IF wait_for_completion THEN pend \cup {speech_id} ELSE pend

\* handle_speak_to_user from its entry to the suspension in sio.emit
\* (builtin_actions.py:66-106)
SpeakEnter(sid, message, wait, synthOk) ==
  IF message = ""
  THEN /\ ret' = Ret(0, 200, FALSE, "Missing parameter", 0, NoVal)
       /\ synth' = FALSE
       /\ UNCHANGED brokerVars
  ELSE IF BusyCheck(active_speech_per_client, sid)
  THEN /\ ret' = BusyResult(sid, active_speech_per_client)
       /\ synth' = FALSE
       /\ UNCHANGED brokerVars
  ELSE IF ~synthOk
  THEN /\ ret' = SynthFailure
       /\ synth' = TRUE
       /\ UNCHANGED brokerVars
  ELSE /\ next_id <= MaxTokens
       /\ active_speech_per_client' = AcquireGuard(active_speech_per_client, sid, next_id)
       /\ pending_speech_completions' =
            RegisterSpeech(pending_speech_completions, next_id, wait)
       /\ future' = [future EXCEPT ![next_id] = IF wait THEN PendingFuture ELSE NoFuture]
       /\ calls' = [calls EXCEPT ![next_id] =
            [kind |-> "speak_to_user", sid |-> sid, pc |-> "emit", wait |-> wait,
             timeout |-> "60"]]
       /\ next_id' = next_id + 1
       /\ ret' = NoRet
       /\ synth' = TRUE
       /\ UNCHANGED <<pending_tool_calls, pending_user_responses>>

\* handle_ask_user from its entry to the suspension in sio.emit
\* (builtin_actions.py:179-217)
AskEnter(sid, question, timeout, synthOk) ==
  IF question = ""
  THEN /\ ret' = Ret(0, 200, FALSE, "Missing parameter", 0, NoVal)
       /\ synth' = FALSE
       /\ UNCHANGED brokerVars
  ELSE IF BusyCheck(active_speech_per_client, sid)
  THEN /\ ret' = BusyResult(sid, active_speech_per_client)
       /\ synth' = FALSE
       /\ UNCHANGED brokerVars
  ELSE IF ~synthOk
  THEN /\ ret' = SynthFailure
       /\ synth' = TRUE
       /\ UNCHANGED brokerVars
  ELSE /\ next_id <= MaxTokens
       /\ active_speech_per_client' = AcquireGuard(active_speech_per_client, sid, next_id)
       /\ pending_user_responses' = pending_user_responses \cup {next_id}
       /\ future' = [future EXCEPT ![next_id] = PendingFuture]
       /\ calls' = [calls EXCEPT ![next_id] =
            [kind |-> "ask_user", sid |-> sid, pc |-> "emit", wait |-> TRUE,
             timeout |-> timeout]]
       /\ next_id' = next_id + 1
       /\ ret' = NoRet
       /\ synth' = TRUE
       /\ UNCHANGED <<pending_tool_calls, pending_speech_completions>>

\* frontend_action for an action that is not built in, from the token to
\* the suspension in sio.emit (main.py:323-332)
GenericEnter(sid) ==
  /\ next_id <= MaxTokens
  /\ pending_tool_calls' = pending_tool_calls \cup {next_id}
  /\ future' = [future EXCEPT ![next_id] = PendingFuture]
  /\ calls' = [calls EXCEPT ![next_id] =
       [kind |-> "frontend_action", sid |-> sid, pc |-> "emit", wait |-> TRUE,
        timeout |-> "30"]]
  /\ next_id' = next_id + 1
  /\ ret' = NoRet
  /\ synth' = FALSE
  /\ UNCHANGED <<pending_speech_completions, pending_user_responses,
                 active_speech_per_client>>

\* variant: the call is answered as if a peer had served it
NoPeerAnsweredOk == Ret(0, 200, TRUE, "-", 0, NoVal)

\* raise HTTPException(status_code=503, ...) (main.py:310-311)
NoPeerAvailable == Ret(0, 503, FALSE, "No frontend client connected", 0, NoVal)

\* frontend_action, POST /api/frontend-action (main.py:286-332), with
\* handle_builtin_action (builtin_actions.py:283-309) for the built-in ones.
\* client_sid is `next(iter(connected_clients))`: some connected sid.
FrontendAction(action, client_sid, message, wait, timeout, synthOk) ==
  /\ out' = NoOut
  /\ UNCHANGED peerVars
  /\ UNCHANGED <<dbVars, toolVars>>
  /\ IF action = ""
     THEN /\ ret' = Ret(0, 400, FALSE, "Missing action", 0, NoVal)
          /\ synth' = FALSE
          /\ UNCHANGED brokerVars
     ELSE IF connected_clients = {}
     THEN /\ ret' = NoPeerAvailable
          /\ synth' = FALSE
          /\ UNCHANGED brokerVars
     ELSE /\ client_sid \in connected_clients
          /\ CASE action = "speak_to_user" -> SpeakEnter(client_sid, message, wait, synthOk)
               [] action = "ask_user" -> AskEnter(client_sid, message, timeout, synthOk)
               [] OTHER -> GenericEnter(client_sid)


\* variant: the entry is left behind
CleanPendingSkipped(pend, token) == pend

\* `if token in pending: del pending[token]` (builtin_actions.py:133-134,
\* 249-250; main.py:352-353, 358-359)
CleanPending(pend, token) == pend \ {token}

SpeakEvent(t) == Emit("speak_audio", calls[t].sid, t)
AskEvent(t) == Emit("ask_user_question", calls[t].sid, t)
ToolEvent(t) == Emit("frontend_tool", calls[t].sid, t)

\* The call of token t is over: the finally block of the built-in handlers
\* (builtin_actions.py:131-138, 247-254) or the cleanup of frontend_action
\* when clean is set (main.py:350-360), then the return of `r`.
Finish(t, r, clean) ==
  LET c == calls[t]
      builtin == c.kind \in BUILTIN_ACTIONS
      tool == IF c.kind = "frontend_action" /\ clean
              THEN CleanPending(pending_tool_calls, t) ELSE pending_tool_calls
      speech == IF c.kind = "speak_to_user"
                THEN CleanPending(pending_speech_completions, t)
                ELSE pending_speech_completions
      answers == IF c.kind = "ask_user"
                 THEN CleanPending(pending_user_responses, t)
                 ELSE pending_user_responses
  IN /\ pending_tool_calls' = tool
     /\ pending_speech_completions' = speech
     /\ pending_user_responses' = answers
     /\ active_speech_per_client' =
          IF builtin THEN ReleaseGuard(active_speech_per_client, c.sid, t)
          ELSE active_speech_per_client
     /\ calls' = [calls EXCEPT ![t] = NoCall]
     /\ future' = Forget(future, t, t \in tool \cup speech \cup answers)
     /\ ret' = r
     /\ UNCHANGED next_id

\* `await sio.emit(...)` of a dispatch returns or raises
\* (builtin_actions.py:106-111, 217-222; main.py:332-337)
EmitReturn(t, raised) ==
  LET c == calls[t]
  IN /\ c.pc = "emit"
     /\ synth' = FALSE
     /\ UNCHANGED peerVars
     /\ UNCHANGED <<dbVars, toolVars>>
     /\ IF raised
        THEN \* main.py:356-360, or the exception leaves the built-in handler
             \* through its finally block and frontend_action unhandled
             /\ out' = NoOut
             /\ Finish(t, Ret(t, 500, FALSE, "emit raised", 0, NoVal), TRUE)
        ELSE /\ out' = CASE c.kind = "speak_to_user" -> SpeakEvent(t)
                         [] c.kind = "ask_user" -> AskEvent(t)
                         [] OTHER -> ToolEvent(t)
             /\ IF c.kind = "speak_to_user" /\ ~c.wait
                THEN \* builtin_actions.py:116, 123-129
                     Finish(t, Ret(t, 200, TRUE, "-", 0, NoVal), FALSE)
                ELSE /\ calls' = [calls EXCEPT ![t].pc = "wait"]
                     /\ ret' = NoRet
                     /\ UNCHANGED <<pending_tool_calls, pending_speech_completions,
                                    pending_user_responses, active_speech_per_client,
                                    future, next_id>>

\* the timer of asyncio.wait_for fires before the Future is done
\* (builtin_actions.py:118, 228; main.py:343)
Timeout(t) ==
  /\ calls[t].pc = "wait"
  /\ calls[t].timeout # "None"
  /\ future[t].st = "pending"
  /\ future' = [future EXCEPT ![t] = CancelledFuture]
  /\ ret' = NoRet
  /\ out' = NoOut
  /\ synth' = FALSE
  /\ UNCHANGED <<pending_tool_calls, pending_speech_completions,
                 pending_user_responses, active_speech_per_client, calls, next_id>>
  /\ UNCHANGED peerVars
  /\ UNCHANGED <<dbVars, toolVars>>

\* the result handle_speak_to_user returns after the wait, whether the
\* Future was resolved or the wait timed out (builtin_actions.py:116-129)
SpeakResult(sid, t, fut) == Ret(t, 200, TRUE, "-", 0, NoVal)

\* builtin_actions.py:227-245
AskResult(sid, t, fut) ==
  IF fut.st = "result"
  THEN Ret(t, 200, TRUE, "-", 0, fut.val)
  ELSE Ret(t, 200, FALSE, "User did not respond", 0, NoVal)

\* variant: the reply's success field is not read
ToolCallResultAlwaysOk(sid, t, fut) ==
  IF fut.st = "result"
  THEN Ret(t, 200, TRUE, "-", 0,
           <<"data", IF fut.val[2] = "absent" THEN "{}" ELSE fut.val[2]>>)
  ELSE Ret(t, 500, FALSE, "Frontend action timed out", 0, NoVal)

\* main.py:342-360: response.get('success', False), response.get('result', {});
\* the 504 raised in the timeout branch is caught by `except Exception`
\* of the enclosing try and leaves as a 500
ToolCallResult(sid, t, fut) ==
  IF fut.st = "result"
  THEN Ret(t, 200, fut.val[1] = "true", "-", 0,
           <<"data", IF fut.val[2] = "absent" THEN "{}" ELSE fut.val[2]>>)
  ELSE Ret(t, 500, FALSE, "Frontend action timed out", 0, NoVal)

\* the waiter is resumed from asyncio.wait_for and runs to its return
\* (builtin_actions.py:118-138, 228-254; main.py:343-360)
Resume(t) ==
  LET c == calls[t]
  IN /\ c.pc = "wait"
     /\ future[t].st \in {"result", "cancelled"}
     /\ out' = NoOut
     /\ synth' = FALSE
     /\ UNCHANGED peerVars
     /\ UNCHANGED <<dbVars, toolVars>>
     /\ CASE c.kind = "speak_to_user" -> Finish(t, SpeakResult(c.sid, t, future[t]), FALSE)
          [] c.kind = "ask_user" -> Finish(t, AskResult(c.sid, t, future[t]), FALSE)
          [] OTHER -> Finish(t, ToolCallResult(c.sid, t, future[t]),
                             future[t].st = "cancelled")

\* ------------------------------------------------------ session manager
\* SessionManager.get_session (session_manager.py:32-39); 0 is None
get_session(sess, socket_id) == IF socket_id \in DOMAIN sess THEN sess[socket_id] ELSE 0

\* variant: a session is created on every call
get_or_create_session_always(sess, socket_id, fresh) == DictSet(sess, socket_id, fresh)

\* SessionManager.get_or_create_session / create_session (:18-30, :41-46)
get_or_create_session(sess, socket_id, fresh) ==
  IF get_session(sess, socket_id) # 0 THEN sess ELSE DictSet(sess, socket_id, fresh)

\* SessionManager.remove_session (:48-55)
remove_session(sess, socket_id) ==
  IF socket_id \in DOMAIN sess THEN DictDel(sess, socket_id) ELSE sess

\* ---------------------------------------------------------- disconnect
\* disconnect up to `await loop.run_in_executor(...)`, or to its end when
\* there is nothing to stop or creating the client raises (main.py:62-108)
DisconnectStart(sid, agent_runtime_arn, client_ok) ==
  /\ sid \in connected_clients
  /\ disc[sid] = "none"
  /\ connected_clients' = connected_clients \ {sid}
  /\ agent_processing_lock' =
       IF sid \in DOMAIN agent_processing_lock
       THEN DictDel(agent_processing_lock, sid) ELSE agent_processing_lock
  /\ IF get_session(sessions, sid) # 0 /\ agent_runtime_arn /\ client_ok
     THEN /\ disc' = [disc EXCEPT ![sid] = "stopping"]
          /\ UNCHANGED sessions
          /\ ret' = NoRet
     ELSE /\ disc' = [disc EXCEPT ![sid] = "done"]
          /\ sessions' = remove_session(sessions, sid)
          /\ ret' = Ret(0, 0, TRUE, "-", 0, NoVal)
  /\ out' = NoOut
  /\ synth' = FALSE
  /\ UNCHANGED <<ever_connected, next_session, turn, events>>
  /\ UNCHANGED brokerVars
  /\ UNCHANGED <<dbVars, toolVars>>

\* stop_runtime_session returned or raised (main.py:89-108)
DisconnectFinish(sid, raised) ==
  /\ disc[sid] = "stopping"
  /\ disc' = [disc EXCEPT ![sid] = "done"]
  /\ sessions' = remove_session(sessions, sid)
  /\ ret' = Ret(0, 0, ~raised, "-", 0, NoVal)
  /\ out' = NoOut
  /\ synth' = FALSE
  /\ UNCHANGED <<connected_clients, ever_connected, agent_processing_lock,
                 next_session, turn, events>>
  /\ UNCHANGED brokerVars
  /\ UNCHANGED <<dbVars, toolVars>>

\* ---------------------------------------------------------- user_prompt
Prompts == {"", "hi"}

\* variant: the lock is left as it is
EndTurnSkipped(lock, sid) == lock

\* the finally block of user_prompt (main.py:236-239)
EndTurn(lock, sid) == DictSet(lock, sid, FALSE)

\* variant: the rejection is sent as a failed agent_response
BusyNoticeAsResponse(sid) == Emit("agent_response_failure", sid, 0)

\* sio.emit('agent_busy', ..., room=sid) (main.py:157-159)
BusyNotice(sid) == Emit("agent_busy", sid, 0)

\* variant: the lock is not looked at
TurnBusyIgnored(lock, sid) == FALSE

\* agent_processing_lock.get(sid, False) (main.py:155)
TurnBusy(lock, sid) == sid \in DOMAIN lock /\ lock[sid]

\* the handler instance a newly accepted prompt of sid runs in
FreeTurn(sid) ==
  CHOOSE k \in Turns : turn[sid][k] = "idle" /\ \A j \in 1..(k - 1) : turn[sid][j] # "idle"

\* user_prompt up to its first suspension (main.py:144-199).  The transport
\* delivers the events of a sid only while that sid is connected.
UserPrompt(sid, prompt, agent_runtime_arn, client_ok) ==
  /\ sid \in connected_clients
  /\ synth' = FALSE
  /\ UNCHANGED <<connected_clients, ever_connected, disc>>
  /\ UNCHANGED brokerVars
  /\ UNCHANGED <<dbVars, toolVars>>
  /\ IF prompt = ""
     THEN /\ ret' = Ret(0, 0, FALSE, "Empty prompt", 0, NoVal)
          /\ out' = NoOut
          /\ UNCHANGED <<agent_processing_lock, sessions, next_session, turn, events>>
     ELSE IF TurnBusy(agent_processing_lock, sid)
     THEN \* the emit is the last statement of this path (main.py:157-160):
          \* the handler holds nothing while it is suspended in it
          /\ ret' = Ret(0, 0, FALSE, "Agent is busy", 0, NoVal)
          /\ out' = BusyNotice(sid)
          /\ UNCHANGED <<agent_processing_lock, sessions, next_session, turn, events>>
     ELSE /\ \E k \in Turns : turn[sid][k] = "idle"
          /\ agent_processing_lock' = DictSet(agent_processing_lock, sid, TRUE)
          /\ sessions' = get_or_create_session(sessions, sid, next_session)
          /\ next_session' = IF get_session(sessions, sid) # 0
                             THEN next_session ELSE next_session + 1
          /\ turn' = [turn EXCEPT ![sid][FreeTurn(sid)] =
               IF agent_runtime_arn /\ client_ok THEN "invoke" ELSE "emit_error"]
          /\ events' = [events EXCEPT ![sid][FreeTurn(sid)] = << >>]
          /\ ret' = NoRet
          /\ out' = NoOut

\* invoke_agent_runtime returned or raised (main.py:191-199)
TurnInvokeReturn(sid, k, ok) ==
  /\ turn[sid][k] = "invoke"
  /\ turn' = [turn EXCEPT ![sid][k] = IF ok THEN "read" ELSE "emit_error"]
  /\ ret' = NoRet
  /\ out' = NoOut
  /\ synth' = FALSE
  /\ UNCHANGED <<connected_clients, ever_connected, agent_processing_lock,
                 sessions, next_session, disc, events>>
  /\ UNCHANGED brokerVars
  /\ UNCHANGED <<dbVars, toolVars>>

\* the body was read, or reading or json.loads raised (main.py:204-216)
TurnReadReturn(sid, k, ok) ==
  /\ turn[sid][k] = "read"
  /\ turn' = [turn EXCEPT ![sid][k] = IF ok THEN "emit_response" ELSE "emit_error"]
  /\ ret' = NoRet
  /\ out' = NoOut
  /\ synth' = FALSE
  /\ UNCHANGED <<connected_clients, ever_connected, agent_processing_lock,
                 sessions, next_session, disc, events>>
  /\ UNCHANGED brokerVars
  /\ UNCHANGED <<dbVars, toolVars>>

\* variant: agent_turn_complete is sent after the error response as well
AfterEmitAlwaysComplete(pc, ok) ==
  IF pc \in {"emit_response", "emit_error"} /\ ok THEN "emit_complete"
  ELSE IF pc \in {"emit_response", "emit_complete"} /\ ~ok THEN "emit_error"
  ELSE "idle"

\* where the handler goes when an emit returns or raises: from the success
\* response to agent_turn_complete (main.py:216-225), from a raising emit of
\* the try block to the error response (:227-234), otherwise through the
\* finally block to its end
AfterEmit(pc, ok) ==
  IF pc = "emit_response" /\ ok THEN "emit_complete"
  ELSE IF pc \in {"emit_response", "emit_complete"} /\ ~ok THEN "emit_error"
  ELSE "idle"

\* one of the three emits of a turn returned or raised (main.py:216-239)
TurnEmitReturn(sid, k, ok) ==
  /\ turn[sid][k] \in {"emit_response", "emit_complete", "emit_error"}
  /\ synth' = FALSE
  /\ UNCHANGED <<connected_clients, ever_connected, sessions, next_session,
                 disc>>
  /\ UNCHANGED brokerVars
  /\ UNCHANGED <<dbVars, toolVars>>
  /\ out' = IF ~ok THEN NoOut
            ELSE CASE turn[sid][k] = "emit_response" -> Emit("agent_response_success", sid, 0)
                   [] turn[sid][k] = "emit_complete" -> Emit("agent_turn_complete", sid, 0)
                   [] OTHER -> Emit("agent_response_failure", sid, 0)
  /\ events' = [events EXCEPT ![sid][k] =
                  Append(@, IF ~ok THEN "raised"
                            ELSE CASE turn[sid][k] = "emit_response" -> "agent_response_success"
                                   [] turn[sid][k] = "emit_complete" -> "agent_turn_complete"
                                   [] OTHER -> "agent_response_failure")]
  /\ turn' = [turn EXCEPT ![sid][k] = AfterEmit(turn[sid][k], ok)]
  /\ IF AfterEmit(turn[sid][k], ok) # "idle"
     THEN /\ ret' = NoRet
          /\ UNCHANGED agent_processing_lock
     ELSE /\ agent_processing_lock' = EndTurn(agent_processing_lock, sid)
          /\ ret' = Ret(0, 0,
                        turn[sid][k] = "emit_complete", "-", 0, NoVal)


\* The handlers fall into two groups that share only connected_clients,
\* which only connect and disconnect write: the dispatch handlers write the
\* pending tables, the guard, the Futures and the calls; user_prompt writes
\* agent_processing_lock, the sessions and its own position.  Each group is
\* explored with connect and disconnect.
NextBroker ==
  \/ \E sid \in Peers : Connect(sid)
  \/ \E sid \in Peers, arn \in BOOLEAN, ok \in BOOLEAN : DisconnectStart(sid, arn, ok)
  \/ \E sender \in connected_clients, id \in ReplyIds : SpeechCompleted(sender, id)
  \/ \E sender \in connected_clients, id \in ReplyIds, r \in Responses :
       UserResponse(sender, id, r)
  \/ \E sender \in connected_clients, id \in ReplyIds, d \in ToolData :
       FrontendToolResponse(sender, id, d)
  \/ \E a \in Actions, sid \in Peers, m \in Messages, w \in BOOLEAN,
        to \in Timeouts, s \in BOOLEAN :
       /\ a # "speak_to_user" => w       \* only speak_to_user reads wait_for_completion
       /\ a # "ask_user" => to = "30"    \* only ask_user reads timeout
       /\ a \notin BUILTIN_ACTIONS => (s /\ m = "")   \* and only the built-in ones the rest
       /\ FrontendAction(a, sid, m, w, to, s)
  \/ \E t \in Tokens, raised \in BOOLEAN : EmitReturn(t, raised)
  \/ \E t \in Tokens : Timeout(t)
  \/ \E t \in Tokens : Resume(t)

NextTurn ==
  \/ \E sid \in Peers : Connect(sid)
  \/ \E sid \in Peers, arn \in BOOLEAN, ok \in BOOLEAN : DisconnectStart(sid, arn, ok)
  \/ \E sid \in Peers, raised \in BOOLEAN : DisconnectFinish(sid, raised)
  \/ \E sid \in Peers, p \in Prompts, arn \in BOOLEAN, ok \in BOOLEAN :
       UserPrompt(sid, p, arn, ok)
  \/ \E sid \in Peers, k \in Turns, ok \in BOOLEAN : TurnInvokeReturn(sid, k, ok)
  \/ \E sid \in Peers, k \in Turns, ok \in BOOLEAN : TurnReadReturn(sid, k, ok)
  \/ \E sid \in Peers, k \in Turns, ok \in BOOLEAN : TurnEmitReturn(sid, k, ok)

Spec == Init /\ [][NextBroker]_vars
SpecTurn == Init /\ [][NextTurn]_vars

\* The broker with its scheduling: a handler whose emit is under way is
\* resumed when the emit returns or raises, a waiter whose Future is done or
\* cancelled is resumed by the event loop, and the timer of a wait_for that
\* has one fires unless the Future is completed first.
Fairness ==
  \A t \in Tokens :
    /\ WF_vars(\E raised \in BOOLEAN : EmitReturn(t, raised))
    /\ WF_vars(Timeout(t))
    /\ WF_vars(Resume(t))

SpecLive == Init /\ [][NextBroker]_vars /\ Fairness

\* The SessionManager on its own: its three methods called in any order for
\* any socket id (session_manager.py:18-55).  The value a method returns is
\* in ret.ref (0 is None), the method in ret.error and the socket id in
\* ret.token; next_session stands for the uuid of create_session.
SessionGetOrCreate(socket_id) ==
  /\ get_session(sessions, socket_id) = 0 => next_session <= MaxSessions
  /\ sessions' = get_or_create_session(sessions, socket_id, next_session)
  /\ next_session' = IF get_session(sessions, socket_id) # 0
                     THEN next_session ELSE next_session + 1
  /\ ret' = Ret(socket_id, 0, TRUE, "get_or_create_session",
                get_or_create_session(sessions, socket_id, next_session)[socket_id], NoVal)
  /\ out' = NoOut
  /\ synth' = FALSE
  /\ UNCHANGED <<connected_clients, ever_connected, agent_processing_lock, turn,
                 disc, events>>
  /\ UNCHANGED brokerVars
  /\ UNCHANGED <<dbVars, toolVars>>

SessionGet(socket_id) ==
  /\ ret' = Ret(socket_id, 0, get_session(sessions, socket_id) # 0, "get_session",
                get_session(sessions, socket_id), NoVal)
  /\ out' = NoOut
  /\ synth' = FALSE
  /\ UNCHANGED peerVars
  /\ UNCHANGED <<dbVars, toolVars>>
  /\ UNCHANGED brokerVars

SessionRemove(socket_id) ==
  /\ sessions' = remove_session(sessions, socket_id)
  /\ ret' = Ret(socket_id, 0, socket_id \in DOMAIN sessions, "remove_session",
                get_session(sessions, socket_id), NoVal)
  /\ out' = NoOut
  /\ synth' = FALSE
  /\ UNCHANGED <<connected_clients, ever_connected, agent_processing_lock,
                 next_session, turn, disc, events>>
  /\ UNCHANGED brokerVars
  /\ UNCHANGED <<dbVars, toolVars>>

NextSession ==
  \/ \E socket_id \in Peers : SessionGetOrCreate(socket_id)
  \/ \E socket_id \in Peers : SessionGet(socket_id)
  \/ \E socket_id \in Peers : SessionRemove(socket_id)

SpecSession == Init /\ [][NextSession]_vars

\* ------------------------------------------------ tasks and time tracking
\* routers/tasks.py over crud.py.  Every crud function opens its own
\* connection and runs in one sqlite transaction (database.py:10-21); the
\* requests are taken one at a time, each handler from its first statement
\* to its return.  A row of tasks keeps the three columns the handlers
\* below write; a timestamp is the value of the clock, NULL is the SQL NULL.
TaskIds == 1..MaxTasks
NULL == -1
Status == {"pending", "in_progress", "blocked", "completed", "archived"}
\* TaskUpdate.status is Optional (models.py:44): "None" is an update that
\* carries no status
StatusInputs == Status \cup {"None"}

\* the row INSERTed by create_task: status takes its column default, and
\* actual_minutes and completed_at are not in the column list
NewTask == [status |-> "pending", actual_minutes |-> NULL, completed_at |-> NULL]

\* CAST((julianday(now) - julianday(started_at)) * 24 * 60 AS INTEGER)
duration_minutes(started_at, now) == (now - started_at) \div TicksPerMinute

OpenSessions(ts, task_id) ==
  {i \in DOMAIN ts : ts[i].task_id = task_id /\ ts[i].ended_at = NULL}

\* UPDATE time_sessions SET ended_at = now, duration_minutes = ...
\* WHERE task_id = ? AND ended_at IS NULL
EndOpenSessions(ts, task_id, now) ==
  [i \in DOMAIN ts |->
     IF i \in OpenSessions(ts, task_id)
     THEN [ts[i] EXCEPT !.ended_at = now,
                        !.duration_minutes = duration_minutes(ts[i].started_at, now)]
     ELSE ts[i]]

start_time_session_keep_open(ts, task_id, now) ==
  Append(ts, [task_id |-> task_id, started_at |-> now, ended_at |-> NULL,
              duration_minutes |-> NULL])
start_time_session(ts, task_id, now) ==
  Append(EndOpenSessions(ts, task_id, now),
         [task_id |-> task_id, started_at |-> now, ended_at |-> NULL,
          duration_minutes |-> NULL])

\* the rows the SELECT of end_time_session matches after its UPDATE; fetchone
\* takes one of them, and the statement has no ORDER BY
EndedAt(ts, task_id, now) ==
  {i \in DOMAIN ts : ts[i].task_id = task_id /\ ts[i].ended_at = now}

\* UPDATE tasks SET actual_minutes = COALESCE(actual_minutes, 0) + ?
AddActualMinutes(tbl, task_id, duration) ==
  [tbl EXCEPT ![task_id].actual_minutes = (IF @ = NULL THEN 0 ELSE @) + duration]

\* crud.update_task for an update that carries at most a status
update_task(tbl, task_id, status, now) ==
  IF status = "None" \/ task_id \notin DOMAIN tbl
  THEN tbl
  ELSE [tbl EXCEPT ![task_id] =
          [status |-> status,
           actual_minutes |-> tbl[task_id].actual_minutes,
           completed_at |-> IF status = "completed" THEN now
                            ELSE IF tbl[task_id].status = "completed" THEN NULL
                            ELSE tbl[task_id].completed_at]]

bulk_update_status(tbl, task_ids, status, now) ==
  [id \in DOMAIN tbl |->
     IF id \in task_ids
     THEN [status |-> status,
           actual_minutes |-> tbl[id].actual_minutes,
           completed_at |-> IF status = "completed" THEN now
                            ELSE tbl[id].completed_at]
     ELSE tbl[id]]

\* get_task_time_sessions reports `task.actual_minutes or 0`
total_tracked_minutes(tbl, task_id) ==
  IF tbl[task_id].actual_minutes = NULL THEN 0 ELSE tbl[task_id].actual_minutes

\* What a handler returned is in ret: ret.error names the handler, ret.token
\* the task, ret.status the HTTP status, ret.ref the session_id of start_task
\* or the duration_minutes of pause_task (NULL is None).
\* POST /api/tasks.  AUTOINCREMENT hands out 1, 2, ...
CreateTask ==
  LET task_id == Cardinality(DOMAIN tasks) + 1
  IN /\ task_id <= MaxTasks
     /\ tasks' = DictSet(tasks, task_id, NewTask)
     /\ ret' = Ret(task_id, 200, TRUE, "create_task", task_id, NoVal)
     /\ out' = NoOut
     /\ synth' = FALSE
     /\ UNCHANGED <<time_sessions, clock>>
     /\ UNCHANGED <<serverVars, toolVars>>

\* POST /api/tasks/{task_id}/start
StartTask(task_id) ==
  /\ IF task_id \notin DOMAIN tasks
     THEN /\ ret' = Ret(task_id, 404, FALSE, "start_task", 0, NoVal)
          /\ UNCHANGED <<tasks, time_sessions>>
     ELSE /\ Len(time_sessions) < MaxTimeSessions
          /\ time_sessions' = start_time_session(time_sessions, task_id, clock)
          /\ tasks' = update_task(tasks, task_id, "in_progress", clock)
          /\ ret' = Ret(task_id, 200, TRUE, "start_task", Len(time_sessions) + 1, NoVal)
  /\ out' = NoOut
  /\ synth' = FALSE
  /\ UNCHANGED clock
  /\ UNCHANGED <<serverVars, toolVars>>

\* POST /api/tasks/{task_id}/pause.  end_time_session returns None when its
\* UPDATE matched no row, and otherwise adds the duration it read back to
\* actual_minutes.
PauseTask(task_id) ==
  /\ IF task_id \notin DOMAIN tasks
     THEN /\ ret' = Ret(task_id, 404, FALSE, "pause_task", 0, NoVal)
          /\ UNCHANGED <<tasks, time_sessions>>
     ELSE IF OpenSessions(time_sessions, task_id) = {}
     THEN /\ tasks' = update_task(tasks, task_id, "pending", clock)
          /\ ret' = Ret(task_id, 200, TRUE, "pause_task", NULL, NoVal)
          /\ UNCHANGED time_sessions
     ELSE LET ended == EndOpenSessions(time_sessions, task_id, clock)
          IN \E i \in EndedAt(ended, task_id, clock) :
               /\ time_sessions' = ended
               /\ tasks' = update_task(
                             AddActualMinutes(tasks, task_id, ended[i].duration_minutes),
                             task_id, "pending", clock)
               /\ ret' = Ret(task_id, 200, TRUE, "pause_task",
                             ended[i].duration_minutes, NoVal)
  /\ out' = NoOut
  /\ synth' = FALSE
  /\ UNCHANGED clock
  /\ UNCHANGED <<serverVars, toolVars>>

\* POST /api/tasks/{task_id}/complete
CompleteTask(task_id) ==
  /\ tasks' = update_task(tasks, task_id, "completed", clock)
  /\ ret' = IF task_id \in DOMAIN tasks
            THEN Ret(task_id, 200, TRUE, "complete_task", 0, NoVal)
            ELSE Ret(task_id, 404, FALSE, "complete_task", 0, NoVal)
  /\ out' = NoOut
  /\ synth' = FALSE
  /\ UNCHANGED <<time_sessions, clock>>
  /\ UNCHANGED <<serverVars, toolVars>>

\* PUT /api/tasks/{task_id}
UpdateTask(task_id, status) ==
  /\ tasks' = update_task(tasks, task_id, status, clock)
  /\ ret' = IF task_id \in DOMAIN tasks
            THEN Ret(task_id, 200, TRUE, "update_task", 0, NoVal)
            ELSE Ret(task_id, 404, FALSE, "update_task", 0, NoVal)
  /\ out' = NoOut
  /\ synth' = FALSE
  /\ UNCHANGED <<time_sessions, clock>>
  /\ UNCHANGED <<serverVars, toolVars>>

\* POST /api/tasks/bulk/status; ret.ref is cursor.rowcount
BulkUpdateStatus(task_ids, status) ==
  /\ tasks' = bulk_update_status(tasks, task_ids, status, clock)
  /\ ret' = Ret(0, 200, TRUE, "bulk_update_status",
                Cardinality(task_ids \cap DOMAIN tasks), NoVal)
  /\ out' = NoOut
  /\ synth' = FALSE
  /\ UNCHANGED <<time_sessions, clock>>
  /\ UNCHANGED <<serverVars, toolVars>>

\* time passes between two requests
Tick ==
  /\ clock < MaxClock
  /\ clock' = clock + 1
  /\ ret' = NoRet
  /\ out' = NoOut
  /\ synth' = FALSE
  /\ UNCHANGED <<tasks, time_sessions>>
  /\ UNCHANGED <<serverVars, toolVars>>

NextTasks ==
  \/ CreateTask
  \/ \E task_id \in TaskIds : StartTask(task_id)
  \/ \E task_id \in TaskIds : PauseTask(task_id)
  \/ \E task_id \in TaskIds : CompleteTask(task_id)
  \/ \E task_id \in TaskIds, status \in StatusInputs : UpdateTask(task_id, status)
  \/ \E task_ids \in SUBSET TaskIds, status \in Status : BulkUpdateStatus(task_ids, status)
  \/ Tick

SpecTasks == Init /\ [][NextTasks]_vars

\* start_task and pause_task alone, on tasks that exist
NextTracking ==
  \/ CreateTask
  \/ \E task_id \in TaskIds : StartTask(task_id)
  \/ \E task_id \in TaskIds : PauseTask(task_id)
  \/ Tick

SpecTracking == Init /\ [][NextTracking]_vars

\* ------------------------------------------------- tool function names
\* tool_spec_transformer.py.  A string is the sequence of its characters.
\* Chars has one or two characters of every class the function tells
\* apart: ASCII letters, an ASCII digit, the underscore, an ASCII character
\* outside [a-zA-Z0-9_], and a letter outside ASCII.
Chars == {"a", "Z", "7", "_", "-", "é"}
Names == UNION {[1..n -> Chars] : n \in 0..MaxLen}

AsciiLetters == {"a", "Z", "t", "o", "l", "g", "e", "n", "r", "d"}
AsciiDigits == {"7"}
\* str.isalpha() is true of every Unicode letter
isalpha(c) == c \in AsciiLetters \cup {"é"}

\* re.sub(r'[^a-zA-Z0-9_]', '_', name)
ReplaceNonWord(s) ==
  [i \in DOMAIN s |->
     IF s[i] \in AsciiLetters \cup AsciiDigits \cup {"_"} THEN s[i] ELSE "_"]

\* re.sub(r'_+', '_', sanitized)
RECURSIVE CollapseUnderscores(_)
CollapseUnderscores(s) ==
  IF Len(s) <= 1 THEN s
  ELSE IF s[1] = "_" /\ s[2] = "_" THEN CollapseUnderscores(Tail(s))
  ELSE <<s[1]>> \o CollapseUnderscores(Tail(s))

\* sanitized.strip('_')
RECURSIVE LStrip(_)
LStrip(s) == IF s # << >> /\ s[1] = "_" THEN LStrip(Tail(s)) ELSE s
RECURSIVE RStrip(_)
RStrip(s) ==
  IF s # << >> /\ s[Len(s)] = "_" THEN RStrip(SubSeq(s, 1, Len(s) - 1)) ELSE s
Strip(s) == RStrip(LStrip(s))

ToolPrefix == <<"t", "o", "o", "l", "_">>
GeneratedTool == <<"g", "e", "n", "e", "r", "a", "t", "e", "d", "_", "t", "o", "o", "l">>

_sanitize_function_name(n) ==
  LET replaced == ReplaceNonWord(n)
      prefixed == IF replaced # << >> /\ ~isalpha(replaced[1]) /\ replaced[1] # "_"
                  THEN ToolPrefix \o replaced
                  ELSE replaced
      stripped == Strip(CollapseUnderscores(prefixed))
  IN IF stripped = << >> THEN GeneratedTool ELSE stripped

\* transform_frontend_data sanitizes the name it was given
Sanitize ==
  /\ ret.error # "_sanitize_function_name"
  /\ sanitized' = _sanitize_function_name(name)
  /\ ret' = Ret(0, 0, TRUE, "_sanitize_function_name", 0, NoVal)
  /\ out' = NoOut
  /\ synth' = FALSE
  /\ UNCHANGED name
  /\ UNCHANGED <<serverVars, dbVars>>

\* any name may be given
InitTool ==
  /\ InitBackend
  /\ InitStore
  /\ name \in Names
  /\ sanitized = << >>

NextTool == Sanitize

SpecTool == InitTool /\ [][NextTool]_vars

\* The finally blocks of the two built-in handlers, run from every content of
\* active_speech_per_client: each token is unused or belongs to a built-in
\* handler that is suspended in its emit or in its wait, and the guard maps
\* any peers to any ids, those of other handlers included.
GuardInputs == UNION {[D -> Tokens] : D \in SUBSET Peers}
SlotInputs ==
  {[call |-> NoCall, fut |-> NoFuture]}
  \cup {[call |-> [kind |-> k, sid |-> p, pc |-> "emit", wait |-> TRUE,
                    timeout |-> IF k = "ask_user" THEN "30" ELSE "60"],
          fut |-> PendingFuture] :
          k \in BUILTIN_ACTIONS, p \in Peers}
  \cup {[call |-> [kind |-> k, sid |-> p, pc |-> "wait", wait |-> TRUE,
                    timeout |-> IF k = "ask_user" THEN "30" ELSE "60"],
          fut |-> f] :
          k \in BUILTIN_ACTIONS, p \in Peers,
          f \in {PendingFuture, CancelledFuture, ResultFuture(SpeechDone)}}

InitRelease ==
  /\ connected_clients = Peers
  /\ ever_connected = Peers
  /\ agent_processing_lock = << >>
  /\ sessions = << >>
  /\ next_session = 1
  /\ pending_tool_calls = {}
  /\ \E slot \in [Tokens -> SlotInputs] :
       /\ calls = [t \in Tokens |-> slot[t].call]
       /\ future = [t \in Tokens |-> slot[t].fut]
       /\ pending_speech_completions = {t \in Tokens : slot[t].call.kind = "speak_to_user"}
       /\ pending_user_responses = {t \in Tokens : slot[t].call.kind = "ask_user"}
  /\ active_speech_per_client \in GuardInputs
  /\ next_id = MaxTokens + 1
  /\ turn = [p \in Peers |-> [k \in Turns |-> "idle"]]
  /\ disc = [p \in Peers |-> "none"]
  /\ events = [p \in Peers |-> [k \in Turns |-> << >>]]
  /\ ret = NoRet
  /\ out = NoOut
  /\ synth = FALSE
  /\ InitStore
  /\ InitNoTool

NextRelease ==
  \/ \E t \in Tokens, raised \in BOOLEAN : EmitReturn(t, raised)
  \/ \E t \in Tokens : Timeout(t)
  \/ \E t \in Tokens : Resume(t)

SpecRelease == InitRelease /\ [][NextRelease]_vars
\* =================================================================
\* Properties
\* =================================================================
InFlight(t) == calls[t] # NoCall
Guarded(t) == calls[t].kind \in BUILTIN_ACTIONS
GuardedOn(p) == {t \in Tokens : Guarded(t) /\ calls[t].sid = p}
Busy == "Speech already in progress"

\* C1: for every peer at most one speak_to_user / ask_user handler is inside
\* its guarded section (guard set to its id, not yet released), whatever
\* the interleaving of the handlers.
C1_OneGuardedPerPeer == \A p \in Peers : Cardinality(GuardedOn(p)) <= 1

\* C1 witness: a handler of a peer is inside its guarded section, waiting,
\* and a second speak_to_user / ask_user for the same peer has just been
\* turned away.
C1_Witness ==
  \E t \in Tokens :
    /\ Guarded(t) /\ calls[t].pc = "wait"
    /\ ret.error = Busy /\ ret.ref = t

\* The moves of the guard of peer p in one step.
GuardMove(p) ==
  LET held == p \in DOMAIN active_speech_per_client
      held2 == p \in DOMAIN active_speech_per_client'
  IN /\ (~held /\ held2) =>
          \* FREE -> HELD(id) by the handler that generated id in this step
          /\ active_speech_per_client'[p] = next_id
          /\ next_id' = next_id + 1
          /\ ~InFlight(next_id)
          /\ calls'[next_id].kind \in BUILTIN_ACTIONS
          /\ calls'[next_id].sid = p
     /\ (held /\ held2) => active_speech_per_client'[p] = active_speech_per_client[p]
     /\ (held /\ ~held2) =>
          \* HELD(id) -> FREE by the handler of id, which ends in this step
          LET id == active_speech_per_client[p]
          IN Guarded(id) /\ calls[id].sid = p /\ calls'[id] = NoCall

\* C2 as stated: the guard only moves FREE -> HELD(id) by the handler that
\* generated id and HELD(id) -> FREE by the release of id, is never
\* overwritten, and every speak_to_user / ask_user that finds the guard of
\* its peer free acquires it.
C2_AsStated ==
  [][ /\ \A p \in Peers : GuardMove(p)
      /\ \A a \in BUILTIN_ACTIONS, p \in Peers, m \in Messages, w \in BOOLEAN,
            to \in Timeouts, s \in BOOLEAN :
           (p \in connected_clients /\ p \notin DOMAIN active_speech_per_client
              /\ FrontendAction(a, p, m, w, to, s))
           => p \in DOMAIN active_speech_per_client' ]_vars

\* C2 amended: the same moves, and every speak_to_user / ask_user with a
\* non-empty message whose speech synthesis succeeds and that finds the
\* guard of its peer free acquires it with a new id.
C2_GuardStateMachine ==
  [][ /\ \A p \in Peers : GuardMove(p)
      /\ \A a \in BUILTIN_ACTIONS, p \in Peers, m \in Messages \ {""}, w \in BOOLEAN,
            to \in Timeouts :
           (p \in connected_clients /\ p \notin DOMAIN active_speech_per_client
              /\ FrontendAction(a, p, m, w, to, TRUE))
           => /\ p \in DOMAIN active_speech_per_client'
              /\ active_speech_per_client'[p] = next_id ]_vars

\* C2 witness: a holder has released the guard of a peer and the next
\* handler for that peer holds it under a later id.
C2_Witness ==
  \E p \in Peers :
    /\ p \in DOMAIN active_speech_per_client
    /\ active_speech_per_client[p] > 1
    /\ \E t \in 1..(active_speech_per_client[p] - 1) : ret.token = t /\ ~InFlight(t)
    /\ GuardedOn(p) = {active_speech_per_client[p]}

\* What C3 says of a step that is speak_to_user / ask_user with message m
\* for peer p while the guard of p is held.
RefusedWhileHeld(a, p, m, w, s) ==
  (p \in connected_clients /\ p \in DOMAIN active_speech_per_client
     /\ (\E to \in Timeouts : FrontendAction(a, p, m, w, to, s)))
  => /\ ret'.success = FALSE
     /\ ret'.error = Busy
     /\ ret'.ref = active_speech_per_client[p]
     /\ UNCHANGED <<active_speech_per_client, pending_tool_calls,
                    pending_speech_completions, pending_user_responses,
                    future, calls, next_id>>
     /\ synth' = FALSE
     /\ out' = NoOut

\* C3 as stated: every speak_to_user / ask_user invoked for a peer whose
\* guard is held returns in the same step a failure naming the holder's id,
\* changes neither the guard nor the pending tables, synthesizes no speech
\* and emits nothing.
C3_AsStated ==
  [][ \A a \in BUILTIN_ACTIONS, p \in Peers, m \in Messages, w \in BOOLEAN, s \in BOOLEAN :
        RefusedWhileHeld(a, p, m, w, s) ]_vars

\* C3 amended: the same for every invocation with a non-empty message or
\* question (an empty one is refused as "Missing parameter" before the
\* guard is looked at).
C3_RefusedWhileHeld ==
  [][ \A a \in BUILTIN_ACTIONS, p \in Peers, m \in Messages \ {""}, w \in BOOLEAN, s \in BOOLEAN :
        RefusedWhileHeld(a, p, m, w, s) ]_vars

\* C3 witness: an invocation has just been refused with the id of a holder
\* that has not yet got its emit back, and a pending table is non-empty.
C3_Witness ==
  \E t \in Tokens :
    /\ Guarded(t) /\ calls[t].pc = "emit"
    /\ ret.error = Busy /\ ret.ref = t /\ ~synth /\ out = NoOut
    /\ t \in pending_speech_completions \cup pending_user_responses
\* C4: when the cleanup of a guarded handler with id b runs while the guard
\* of its peer holds another id a, the guard still holds a afterwards (and
\* no other peer's guard moves).
C4_StaleReleaseKeepsGuard ==
  [][ \A b \in Tokens :
        (/\ Guarded(b) /\ calls'[b] = NoCall
         /\ calls[b].sid \in DOMAIN active_speech_per_client
         /\ active_speech_per_client[calls[b].sid] # b)
        => active_speech_per_client' = active_speech_per_client ]_vars

\* C4 witness: the handler of id b has returned and the guard of every peer,
\* so also of the peer of b, holds an id other than b.
C4_Witness ==
  \E b \in Tokens :
    /\ ret.token = b /\ ret.status # 0 /\ ~InFlight(b)
    /\ \A p \in Peers :
         p \in DOMAIN active_speech_per_client /\ active_speech_per_client[p] # b

\* C5: no handler ends while its id is still in active_speech_per_client:
\* every id the guard holds belongs to a built-in handler of that peer that
\* is still running.
C5_ReleasedOnEveryExit ==
  \A p \in DOMAIN active_speech_per_client :
    LET id == active_speech_per_client[p]
    IN InFlight(id) /\ Guarded(id) /\ calls[id].sid = p

\* C5 witness: an ask_user has returned through its timeout branch and no
\* guard holds its id.
C5_Witness ==
  /\ ret.error = "User did not respond"
  /\ ~InFlight(ret.token)
  /\ \A p \in DOMAIN active_speech_per_client : active_speech_per_client[p] # ret.token

Resolved(t) == future[t].st = "result"
Over(t) == t < next_id /\ ~InFlight(t)
\* a reply for a token that was already resolved or whose waiter has returned
Late(id) == id \in Tokens /\ (Resolved(id) \/ Over(id))
Rejected == ret'.success = FALSE /\ UNCHANGED brokerVars
\* Every step of a reply handler reports the id the reply carried, with
\* status 0 and no emit (SpeechCompleted, UserResponse,
\* FrontendToolResponse); the steps that do not are steps of other handlers.
ReplyWith(id) == ret'.token = id /\ ret'.status = 0 /\ out' = NoOut

\* what the waiter of t returns in this step, given the payload in its Future
Delivered(t) ==
  /\ ret'.token = t
  /\ calls[t].kind = "ask_user" => ret'.success /\ ret'.data = future[t].val
  /\ calls[t].kind = "speak_to_user" => ret'.success
  /\ calls[t].kind = "frontend_action" =>
       /\ ret'.status = 200
       /\ ret'.success = (future[t].val[1] = "true")
       /\ ret'.data[2] = (IF future[t].val[2] = "absent" THEN "{}" ELSE future[t].val[2])

\* C6: for every token at most one resolve succeeds, the payload it stored
\* is never replaced and is what the waiter returns; every reply for a
\* token already resolved, or whose waiter has returned (with a result or on
\* timeout), is reported as not handled and changes no state.
C6_SingleResolve ==
  [][ /\ \A id \in Tokens :
           (Late(id) /\ ReplyWith(id)) =>
             /\ \A sender \in Peers : SpeechCompleted(sender, id) => Rejected
             /\ \A sender \in Peers, r \in Responses :
                  UserResponse(sender, id, r) => Rejected
             /\ \A sender \in Peers, d \in ToolData :
                  FrontendToolResponse(sender, id, d) => Rejected
      /\ \A t \in Tokens :
           (Resolved(t) /\ InFlight(t)) =>
             /\ calls'[t] # NoCall => future'[t] = future[t]
             /\ (calls[t].pc = "wait" /\ calls'[t] = NoCall) => Delivered(t) ]_vars

\* C6 witness: the answer to a question is stored for its waiter, which has
\* not resumed yet, and a further reply carrying the same token has just
\* been reported as not handled.
C6_Witness ==
  \E t \in Tokens :
    /\ calls[t].kind = "ask_user" /\ calls[t].pc = "wait" /\ Resolved(t)
    /\ future[t].val = <<"response", "yes">>
    /\ ret = Ret(t, 0, FALSE, "-", 0, NoVal)

\* C7: a speech_completed, user_response or frontend_tool_response whose id
\* is not a key of the table it is looked up in (so every id that was never
\* registered) is reported as not handled and changes none of
\* pending_tool_calls, pending_speech_completions, pending_user_responses,
\* active_speech_per_client; no entry appears.
C7_UnknownReplyIsNoOp ==
  [][ \A id \in ReplyIds :
        ReplyWith(id) =>
          /\ id \notin pending_speech_completions =>
               \A sender \in Peers : SpeechCompleted(sender, id) => Rejected
          /\ id \notin pending_user_responses =>
               \A sender \in Peers, r \in Responses :
                 UserResponse(sender, id, r) => Rejected
          /\ id \notin pending_tool_calls =>
               \A sender \in Peers, d \in ToolData :
                 FrontendToolResponse(sender, id, d) => Rejected ]_vars

\* C7 witness: a reply with an id no handler generated has just been
\* reported as not handled while requests are pending.
C7_Witness ==
  /\ ret = Ret(MaxTokens + 1, 0, FALSE, "-", 0, NoVal)
  /\ pending_tool_calls # {}
  /\ pending_user_responses # {}

\* C8: the keys of the three pending tables are tokens of dispatches still
\* in progress, each in the table of its kind; when a dispatch has finished
\* its token is in none of them, and with no dispatch in progress all three
\* are empty.
C8_NoPendingLeftBehind ==
  /\ \A t \in pending_tool_calls : calls[t].kind = "frontend_action"
  /\ \A t \in pending_speech_completions : calls[t].kind = "speak_to_user"
  /\ \A t \in pending_user_responses : calls[t].kind = "ask_user"

\* C8 witness: a generic action has timed out and returned, and the three
\* tables are empty.
C8_Witness ==
  /\ ret.error = "Frontend action timed out"
  /\ \A t \in Tokens : ~InFlight(t)
  /\ pending_tool_calls \cup pending_speech_completions \cup pending_user_responses = {}

\* C9 as stated: once the disconnect handler of a peer has completed, a
\* request that was waiting under the busy guard of that peer is no longer
\* registered, the guard of the peer is free and the waiting handler has
\* been woken (its Future is no longer pending).
C9_DisconnectCancels ==
  \A p \in Peers, t \in Tokens :
    (disc[p] = "done" /\ Guarded(t) /\ calls[t].sid = p /\ calls[t].pc = "wait")
    => /\ t \notin pending_speech_completions \cup pending_user_responses
       /\ p \notin DOMAIN active_speech_per_client
       /\ future[t].st # "pending"

\* C10 as stated: once disconnect(peer) has completed and the user_prompt
\* handler of the peer has finished, the peer is in none of
\* connected_clients, the sessions and agent_processing_lock.
C10_NothingLeftOfPeer ==
  \A p \in Peers :
    (disc[p] = "done" /\ \A k \in Turns : turn[p][k] = "idle") =>
      /\ p \notin connected_clients
      /\ p \notin DOMAIN sessions
      /\ p \notin DOMAIN agent_processing_lock

\* C11 as stated: every call of frontend_action made while no peer is
\* connected is answered 503 'No frontend client connected'.
C11_AsStated ==
  [][ connected_clients = {} =>
      \A a \in Actions, sid \in Peers, m \in Messages, w \in BOOLEAN,
         to \in Timeouts, s \in BOOLEAN :
        FrontendAction(a, sid, m, w, to, s) => (ret'.status = 503 /\ ret'.error = "No frontend client connected") ]_vars

\* C11: a call of frontend_action that names an action, made while no peer
\* is connected, is answered 503 'No frontend client connected' in the same
\* step; no token is generated, the pending tables, the Futures and the busy
\* guard are unchanged, no handler is left in flight, nothing is emitted and
\* no speech is synthesized.
C11_NoPeerAvailable ==
  [][ connected_clients = {} =>
      \A a \in Actions \ {""}, sid \in Peers, m \in Messages, w \in BOOLEAN,
         to \in Timeouts, s \in BOOLEAN :
        FrontendAction(a, sid, m, w, to, s)
        => /\ ret'.status = 503 /\ ret'.error = "No frontend client connected"
           /\ ret'.success = FALSE
           /\ UNCHANGED brokerVars
           /\ out' = NoOut
           /\ synth' = FALSE ]_vars

\* C11 witness: the last peer has disconnected and a dispatch has just been
\* answered 503.
C11_Witness ==
  /\ ret.status = 503 /\ ret.error = "No frontend client connected"
  /\ connected_clients = {}
  /\ ever_connected # {}

\* C12: a frontend_tool_response that carries the token of a generic action
\* still waiting stores its payload for the waiter, and when the waiter
\* resumes with a payload it returns 200 {success, data}: success is the
\* reply's success field (false when absent), data the reply's result field
\* (the empty map when absent).
C12_ReplyReachesCaller ==
  [][ /\ \A t \in pending_tool_calls :
           future[t].st = "pending" =>
             \A sender \in Peers, d \in ToolData :
               FrontendToolResponse(sender, t, d) => future'[t] = ResultFuture(d)
      /\ \A t \in Tokens :
           (calls[t].kind = "frontend_action" /\ Resolved(t)) =>
             (Resume(t) =>
                /\ ret'.token = t /\ ret'.status = 200
                /\ ret'.success = (future[t].val[1] = "true")
                /\ ret'.data = <<"data", IF future[t].val[2] = "absent"
                                         THEN "{}" ELSE future[t].val[2]>>) ]_vars

\* C12 witness: the caller of a generic action has just received
\* {success: true, data: R1}, the payload of the reply {success: true,
\* result: R1}.
C12_Witness ==
  /\ ret.status = 200 /\ ret.success
  /\ ret.data = <<"data", "R1">>
  /\ ret.token \in Tokens /\ ~InFlight(ret.token)

\* C13 as stated: when the wait of a generic action times out, its caller
\* receives the status raised in the timeout branch, 504 'Frontend action
\* timed out'; a frontend_tool_response for that token arriving after the
\* caller returned is reported as not handled and changes no broker state.
C13_TimeoutStatus ==
  [][ /\ \A t \in Tokens :
           (calls[t].kind = "frontend_action" /\ future[t].st = "cancelled") =>
             (Resume(t) =>
                /\ ret'.token = t /\ ret'.status = 504 /\ ~ret'.success
                /\ ret'.error = "Frontend action timed out")
      /\ \A t \in Tokens :
           Over(t) => \A sender \in Peers, d \in ToolData :
                        FrontendToolResponse(sender, t, d) => Rejected ]_vars

\* C14 as stated: when the wait of speak_to_user for its speech_completed
\* times out, the result the handler returns reports a failure.
C14_SpeakTimeoutIsFailure ==
  [][ \A t \in Tokens :
        (calls[t].kind = "speak_to_user" /\ future[t].st = "cancelled") =>
          (Resume(t) => (ret'.token = t /\ ~ret'.success)) ]_vars

Executing(p) == {k \in Turns : turn[p][k] # "idle"}

\* C15: for every peer at most one user_prompt handler is between the
\* assignment agent_processing_lock[peer] = True and its finally block, in
\* every reachable state; a user_prompt that arrives while the lock of its
\* peer is held starts no handler past the check: no turn position, session
\* or lock changes, so no agent invocation starts.
C15_OneTurnPerPeer ==
  /\ [](\A p \in Peers : Cardinality(Executing(p)) <= 1)
  /\ [][ \A sid \in Peers :
           TurnBusy(agent_processing_lock, sid) =>
             \A pr \in Prompts, arn \in BOOLEAN, ok \in BOOLEAN :
               UserPrompt(sid, pr, arn, ok)
               => UNCHANGED <<turn, sessions, next_session, agent_processing_lock>> ]_vars

\* C15 witness: a turn of a peer is waiting for the agent and a further
\* prompt of that peer has just been turned away.
C15_Witness ==
  \E p \in Peers :
    /\ \E k \in Turns : turn[p][k] = "invoke"
    /\ out = Emit("agent_busy", p, 0)

\* C16: a user_prompt handler that set the lock leaves it false when it
\* finishes, by whichever path (agent response delivered, AGENT_RUNTIME_ARN
\* missing, invocation raising, reading or parsing raising, an emit
\* raising): the step in which a turn ends writes
\* agent_processing_lock[peer] = False, and in every state in which no turn
\* of a peer is running the lock of that peer is not true, so its next
\* prompt passes the check.
C16_LockReleased ==
  /\ [](\A p \in Peers :
          Executing(p) = {} =>
            ~(p \in DOMAIN agent_processing_lock /\ agent_processing_lock[p]))
  /\ [][ \A p \in Peers, k \in Turns :
           (turn[p][k] # "idle" /\ turn'[p][k] = "idle")
           => (p \in DOMAIN agent_processing_lock' /\ ~agent_processing_lock'[p]) ]_vars

\* C16 witness: a turn has ended on the path where the emit of the error
\* response raised as well; the peer is still connected and its lock is
\* false.
C16_Witness ==
  \E p \in connected_clients :
    /\ \A q \in Peers : disc[q] = "none"
    /\ Executing(p) = {}
    /\ p \in DOMAIN agent_processing_lock /\ ~agent_processing_lock[p]
    /\ ret = Ret(0, 0, FALSE, "-", 0, NoVal) /\ out = NoOut

\* C17: a user_prompt with a prompt, arriving while the lock of its peer is
\* held, emits one event, 'agent_busy', to that peer and returns in the same
\* step: it waits for nothing, the lock stays true, the running turn keeps
\* its position, no turn position is taken for the rejected prompt (nothing
\* is left that could process it later) and no session is created.
C17_BusyRejected ==
  [][ \A sid \in Peers :
        (sid \in DOMAIN agent_processing_lock /\ agent_processing_lock[sid]) =>
          \A pr \in Prompts \ {""}, arn \in BOOLEAN, ok \in BOOLEAN :
            UserPrompt(sid, pr, arn, ok)
            => /\ out' = Emit("agent_busy", sid, 0)
               /\ ret'.error = "Agent is busy"
               /\ agent_processing_lock'[sid]
               /\ UNCHANGED <<turn, agent_processing_lock, sessions, next_session>> ]_vars

\* C17 witness: while a turn of a peer is reading the agent's response, a
\* prompt of that peer has just been rejected; the lock is still held.
C17_Witness ==
  \E p \in Peers :
    /\ \E k \in Turns : turn[p][k] = "read"
    /\ ret.error = "Agent is busy"
    /\ out.event = "agent_busy" /\ out.room = p
    /\ p \in DOMAIN agent_processing_lock /\ agent_processing_lock[p]

\* what a step leaves alone when it is about token t: the Future, the
\* handler and the registration of every other token
Others(t) ==
  \A u \in Tokens \ {t} :
    /\ future'[u] = future[u]
    /\ calls'[u] = calls[u]
    /\ (u \in pending_tool_calls') = (u \in pending_tool_calls)
    /\ (u \in pending_speech_completions') = (u \in pending_speech_completions)
    /\ (u \in pending_user_responses') = (u \in pending_user_responses)

\* C18: replies are matched by token only.  A reply that carries the token
\* t of a registered request stores its own payload in the Future of t and
\* leaves every other request as it was, registered and unresolved if it was
\* so; the waiter of t returns the payload stored for t and touches no other
\* request.  So with two requests in flight each caller gets the payload
\* sent with its token, whichever reply arrives first.
C18_MatchedByToken ==
  [][ /\ \A t \in pending_user_responses :
           \A sender \in Peers, r \in Responses :
             UserResponse(sender, t, r)
             => /\ Others(t)
                /\ (r # "" /\ future[t].st = "pending")
                     => future'[t] = ResultFuture(<<"response", r>>)
      /\ \A t \in pending_speech_completions :
           \A sender \in Peers :
             SpeechCompleted(sender, t)
             => /\ Others(t)
                /\ future[t].st = "pending" => future'[t] = ResultFuture(SpeechDone)
      /\ \A t \in pending_tool_calls :
           \A sender \in Peers, d \in ToolData :
             FrontendToolResponse(sender, t, d)
             => /\ Others(t)
                /\ future[t].st = "pending" => future'[t] = ResultFuture(d)
      /\ \A t \in Tokens :
           (calls[t].pc = "wait" /\ Resolved(t)) =>
             (Resume(t) => (Delivered(t) /\ Others(t))) ]_vars

\* C18 witness: two requests are waiting, the reply for the second one has
\* arrived first and has just been stored, and the first one is still
\* registered and unresolved.
C18_Witness ==
  /\ calls[1].pc = "wait" /\ calls[2].pc = "wait"
  /\ Resolved(2) /\ ret.token = 2 /\ ret.success /\ ret.status = 0
  /\ future[1].st = "pending"
  /\ 1 \in pending_tool_calls \cup pending_speech_completions \cup pending_user_responses

\* the requests registered in any of the three tables that were sent to p
PendingFor(p) ==
  {t \in pending_tool_calls \cup pending_speech_completions \cup pending_user_responses :
     calls[t].sid = p}

\* C19 as stated: in every reachable state every peer has at most one
\* pending request outstanding, counting generic actions, speech waits and
\* questions together.
C19_OnePendingPerPeer == \A p \in Peers : Cardinality(PendingFor(p)) <= 1

Registered(t) ==
  t \in pending_tool_calls \cup pending_speech_completions \cup pending_user_responses

\* C20 as stated: every dispatch that registered a pending request
\* eventually returns to its caller, whether or not the peer replies or is
\* still connected, given that the timers fire.
C20_EveryDispatchReturns ==
  \A t \in Tokens : (InFlight(t) /\ Registered(t)) ~> ~InFlight(t)

\* the same for the dispatches whose wait has a timer
TimedDispatchReturns ==
  \A t \in Tokens :
    (InFlight(t) /\ Registered(t) /\ calls[t].timeout # "None") ~> ~InFlight(t)

\* C21: a speak_to_user or ask_user with a message, for a connected peer
\* whose guard is free, whose speech synthesis fails returns a failure in
\* the step in which _generate_speech was called, once: the guard, the
\* pending tables, the Futures and the token counter are unchanged, no
\* handler is left in flight and nothing is emitted.
C21_SynthesisFailure ==
  [][ \A p \in connected_clients :
        p \notin DOMAIN active_speech_per_client =>
          \A a \in BUILTIN_ACTIONS, m \in Messages \ {""}, w \in BOOLEAN,
             to \in Timeouts :
            FrontendAction(a, p, m, w, to, FALSE)
            => /\ ret'.success = FALSE
               /\ ret'.error = "Failed to generate speech"
               /\ synth' = TRUE
               /\ UNCHANGED brokerVars
               /\ out' = NoOut ]_vars

\* C21 witness: synthesis has just failed for a dispatch to a connected
\* peer; no guard is held and nothing is pending or in flight.
C21_Witness ==
  /\ ret.error = "Failed to generate speech" /\ ~ret.success /\ synth
  /\ connected_clients # {}
  /\ active_speech_per_client = << >>
  /\ \A t \in Tokens : ~InFlight(t) /\ ~Registered(t)

\* C22: a speech_completed, user_response (with a response) or
\* frontend_tool_response that carries the token of a registered request
\* whose Future is pending resolves it and is reported as handled, whichever
\* sid sent it; in particular a sid other than the one the request was
\* emitted to.
C22_AnySenderResolves ==
  [][ \A t \in Tokens :
        (future[t].st = "pending" /\ ReplyWith(t)) =>
          \A sender \in Peers :
            /\ t \in pending_speech_completions =>
                 (SpeechCompleted(sender, t)
                  => (ret'.success /\ future'[t] = ResultFuture(SpeechDone)))
            /\ t \in pending_user_responses =>
                 \A r \in Responses \ {""} :
                   UserResponse(sender, t, r)
                   => (ret'.success /\ future'[t] = ResultFuture(<<"response", r>>))
            /\ t \in pending_tool_calls =>
                 \A d \in ToolData :
                   FrontendToolResponse(sender, t, d)
                   => (ret'.success /\ future'[t] = ResultFuture(d)) ]_vars

\* C22 witness: a question was emitted to a peer that has since
\* disconnected; the answer of another peer, the only kind of sender left,
\* has just resolved it.
C22_Witness ==
  \E t \in Tokens :
    /\ calls[t].kind = "ask_user" /\ calls[t].pc = "wait"
    /\ calls[t].sid \notin connected_clients /\ connected_clients # {}
    /\ Resolved(t) /\ future[t].val[1] = "response"
    /\ ret = Ret(t, 0, TRUE, "-", 0, NoVal)

\* a question that is waiting for its answer
Asking(t) == calls[t].kind = "ask_user" /\ calls[t].pc = "wait" /\ future[t].st = "pending"

\* C23: a user_response with an empty or missing response, or without a
\* request_id, is reported as not handled and changes nothing.  A question
\* that is waiting unanswered is registered and holds the guard of its peer;
\* it stays so until its timer cancels the Future, and the asker then
\* resumes with the failure 'User did not respond', the guard released and
\* the entry removed.
C23_EmptyResponseIgnored ==
  /\ [](\A t \in Tokens :
          Asking(t) =>
            /\ t \in pending_user_responses
            /\ calls[t].sid \in DOMAIN active_speech_per_client
            /\ active_speech_per_client[calls[t].sid] = t)
  /\ [][ /\ \A id \in ReplyIds :
             ReplyWith(id) =>
               \A sender \in Peers :
                 /\ UserResponse(sender, id, "") => Rejected
                 /\ id = 0 => \A r \in Responses : UserResponse(sender, id, r) => Rejected
        /\ \A t \in Tokens :
             (calls[t].kind = "ask_user" /\ future[t].st = "cancelled") =>
               (Resume(t) =>
                  /\ ret' = Ret(t, 200, FALSE, "User did not respond", 0, NoVal)
                  /\ t \notin pending_user_responses'
                  /\ calls[t].sid \notin DOMAIN active_speech_per_client') ]_vars

\* C23 witness: a reply that carries the token of a waiting question has
\* just been turned away (a user_response with an empty response is such a
\* reply); the question is still registered, unresolved, and holds the
\* guard of its peer.
C23_Witness ==
  \E t \in Tokens :
    /\ Asking(t)
    /\ ret = Ret(t, 0, FALSE, "-", 0, NoVal)
    /\ t \in pending_user_responses
    /\ active_speech_per_client[calls[t].sid] = t

\* a speak_to_user that was called with wait_for_completion false
NoWait(t) == calls[t].kind = "speak_to_user" /\ ~calls[t].wait

\* C24: a speak_to_user with wait_for_completion false has no entry in
\* pending_speech_completions and no Future; when its emit returns it
\* returns success in that same step, and the guard of its peer is free in
\* the state it leaves, so the next speak_to_user / ask_user for the peer
\* finds it free.  A speech_completed that carries its speech_id, during the
\* emit or after the return, is reported as not handled and changes nothing.
C24_FireAndForget ==
  /\ [](\A t \in Tokens :
          NoWait(t) => (t \notin pending_speech_completions /\ future[t] = NoFuture))
  /\ [][ /\ \A t \in Tokens :
             NoWait(t) =>
               (EmitReturn(t, FALSE) =>
                  /\ ret' = Ret(t, 200, TRUE, "-", 0, NoVal)
                  /\ out' = Emit("speak_audio", calls[t].sid, t)
                  /\ calls'[t] = NoCall
                  /\ calls[t].sid \notin DOMAIN active_speech_per_client')
        /\ \A t \in Tokens :
             ((NoWait(t) \/ (Over(t) /\ t \notin pending_speech_completions))
                /\ ReplyWith(t)) =>
               \A sender \in Peers : SpeechCompleted(sender, t) => Rejected ]_vars

\* C24 witness: a speak_to_user has returned success in the very step in
\* which its audio was emitted, which only a call with wait_for_completion
\* false does; no guard is held and nothing is registered.
C24_Witness ==
  /\ ret.token \in Tokens /\ ret.status = 200 /\ ret.success
  /\ out = Emit("speak_audio", out.room, ret.token)
  /\ ~InFlight(ret.token)
  /\ active_speech_per_client = << >>
  /\ pending_speech_completions = {}

\* C25: the sessions are a map from socket id to one runtime session id.
\* For a socket that has a session, get_or_create_session and get_session
\* return that id and leave the map as it is; remove_session returns it and
\* removes the entry.  For a socket without one, get_session returns None,
\* remove_session returns None and changes nothing, and
\* get_or_create_session stores and returns an id that was never issued
\* before.
C25_OneSessionPerSocket ==
  /\ [](\A s \in DOMAIN sessions : sessions[s] \in 1..(next_session - 1))
  /\ [][ \A s \in Peers :
           IF s \in DOMAIN sessions
           THEN /\ SessionGetOrCreate(s) => (ret'.ref = sessions[s] /\ sessions' = sessions)
                /\ SessionGet(s) => (ret'.ref = sessions[s] /\ sessions' = sessions)
                /\ SessionRemove(s) =>
                     /\ ret'.ref = sessions[s]
                     /\ s \notin DOMAIN sessions'
                     /\ \A o \in DOMAIN sessions \ {s} :
                          o \in DOMAIN sessions' /\ sessions'[o] = sessions[o]
           ELSE /\ SessionGet(s) => (ret'.ref = 0 /\ sessions' = sessions)
                /\ SessionRemove(s) => (ret'.ref = 0 /\ sessions' = sessions)
                /\ SessionGetOrCreate(s) =>
                     /\ s \in DOMAIN sessions' /\ sessions'[s] = ret'.ref
                     /\ ret'.ref >= next_session /\ ret'.ref < next_session' ]_vars

\* C25 witness: a socket whose session was removed has asked again and has
\* just been given a session with a later id, the only session there is.
C25_Witness ==
  \E s \in Peers :
    /\ DOMAIN sessions = {s} /\ sessions[s] > 1
    /\ ret = Ret(s, 0, TRUE, "get_or_create_session", sessions[s], NoVal)

AgentResponses(seq) ==
  {i \in DOMAIN seq : seq[i] \in {"agent_response_success", "agent_response_failure"}}
TurnEnds(p, k) == turn[p][k] # "idle" /\ turn'[p][k] = "idle"
\* agent_turn_complete, where it occurs, is the second and last event of its
\* turn and follows the success response
CompleteOnlyAfterSuccess(seq) ==
  \A i \in DOMAIN seq :
    seq[i] = "agent_turn_complete" =>
      (i = 2 /\ Len(seq) = 2 /\ seq[1] = "agent_response_success")
\* an event of a turn is emitted by a handler that has not reached the end
\* of its finally block, with the lock of a connected peer still held
EmittedInsideTurn ==
  out'.event \in {"agent_response_success", "agent_response_failure", "agent_turn_complete"}
  => /\ \E k \in Turns : turn[out'.room][k] \in {"emit_response", "emit_complete", "emit_error"}
     /\ out'.room \in connected_clients =>
          (out'.room \in DOMAIN agent_processing_lock /\ agent_processing_lock[out'.room])

Open(task_id) == OpenSessions(time_sessions, task_id)
Returned(handler, task_id) ==
  ret'.error = handler /\ ret'.status = 200 /\ ret'.token = task_id

\* C27: whatever start_task and pause_task calls have been made, a task has
\* at most one time session with ended_at unset; a start_task that finds an
\* open session of the task ends it and leaves the session it inserts as the
\* only open one, and a pause_task leaves the task no open session.
C27_OneOpenSession ==
  /\ [](\A task_id \in TaskIds : Cardinality(Open(task_id)) <= 1)
  /\ [][ \A task_id \in TaskIds :
           /\ Returned("start_task", task_id)
                => /\ \A i \in Open(task_id) : time_sessions'[i].ended_at = clock
                   /\ Open(task_id)' = {Len(time_sessions) + 1}
           /\ Returned("pause_task", task_id)
                => /\ \A i \in Open(task_id) : time_sessions'[i].ended_at = clock
                   /\ Open(task_id)' = {} ]_vars

\* start_task has just ended a session of the task that was still open: no
\* pause_task ever ended one (actual_minutes is still NULL), one session has
\* ended and the next is open
C27_Witness ==
  /\ ret.error = "start_task"
  /\ ret.status = 200
  /\ tasks[ret.token].actual_minutes = NULL
  /\ \E i, j \in DOMAIN time_sessions :
       /\ i < j
       /\ time_sessions[i].task_id = ret.token
       /\ time_sessions[j].task_id = ret.token
       /\ time_sessions[i].ended_at = time_sessions[j].started_at
       /\ time_sessions[j].ended_at = NULL

\* ---------------------------------------------------------------- C28
\* the sum of duration_minutes over the ended time sessions of a task
RECURSIVE SumEnded(_, _)
SumEnded(ts, task_id) ==
  IF ts = << >> THEN 0
  ELSE (IF Head(ts).task_id = task_id /\ Head(ts).ended_at # NULL
        THEN Head(ts).duration_minutes ELSE 0) + SumEnded(Tail(ts), task_id)

\* C28: after any start_task and pause_task calls, the total_tracked_minutes
\* of a task is the sum of duration_minutes over its ended time sessions.
C28_ActualMinutesIsSum ==
  \A task_id \in DOMAIN tasks :
    total_tracked_minutes(tasks, task_id) = SumEnded(time_sessions, task_id)

\* ---------------------------------------------------------------- C29
\* C29: after any update_task, complete_task, start_task, pause_task and
\* bulk_update_status calls, completed_at of a task is set exactly when its
\* status is completed, and a step that takes a task out of completed leaves
\* its completed_at NULL.
C29_CompletedAtIffCompleted ==
  /\ [](\A task_id \in DOMAIN tasks :
          tasks[task_id].completed_at # NULL <=> tasks[task_id].status = "completed")
  /\ [][ \A task_id \in DOMAIN tasks :
           (tasks[task_id].status = "completed" /\ tasks'[task_id].status # "completed")
             => tasks'[task_id].completed_at = NULL ]_vars

\* ---------------------------------------------------------------- C30
\* C30: what _sanitize_function_name returns is never empty, holds only ASCII
\* letters, digits and underscores, and starts with a letter or an underscore.
C30_ValidFunctionName ==
  ret.error = "_sanitize_function_name"
    => /\ sanitized # << >>
       /\ \A i \in DOMAIN sanitized :
            sanitized[i] \in AsciiLetters \cup AsciiDigits \cup {"_"}
       /\ sanitized[1] \in AsciiLetters \cup {"_"}

\* user_prompt keeps one position per peer: a prompt is only ever accepted
\* when no turn of that peer is running.
TurnSlotFree ==
  \A p \in connected_clients :
    (p \in DOMAIN agent_processing_lock /\ agent_processing_lock[p])
    \/ \A k \in Turns : turn[p][k] = "idle"
====
